---- MODULE Spec2Model ----
(***************************************************************************)
(* Modified-Leitner flashcard scheduler (src/src/algorithm.ts).            *)
(*                                                                         *)
(* A JavaScript Map is modelled as the sequence of its entries in          *)
(* insertion order.  A Set<Flashcard> is a mutable object: in the part of  *)
(* the model about update() a map entry holds a reference into `heap`,     *)
(* which maps each live reference to the members of that Set object, so    *)
(* that two maps holding the same Set object see each other's changes.     *)
(* The read-only functions (toBucketSets, getBucketRange, practice,        *)
(* computeProgress) take maps and arrays whose entries hold the members    *)
(* directly.  A dense array is a sequence; JavaScript index i is TLA+      *)
(* index i + 1.                                                            *)
(***************************************************************************)
EXTENDS Integers, Sequences, FiniteSets, TLC

\* ---------------------------------------------------------------- bounds
NumCards == 3       \* flashcards handed to the scheduler
MaxBucket == 3      \* highest bucket number a card is moved to or starts in
MaxLen == 4         \* longest dense array given to getBucketRange / practice
MaxDay == 7         \* last day number given to practice
NumHistCards == 4   \* flashcards appearing in a review history
MaxHist == 5        \* longest review history
MaxRight == 1       \* most Easy/Hard entries in a review history

\* the cap of hardestCards: .slice(0, 3)
TopN == 3

Cards == 1..NumCards
HistCards == 1..NumHistCards

\* JavaScript's undefined where a number is expected (bucket numbers are >= 0)
Undefined == 0 - 1
NoCard == Undefined
NoDifficulty == "none"

\* a value that may be undefined, where the defined value is a record
None == {}
Some(x) == {x}

\* AnswerDifficulty, imported at algorithm.ts:11
Wrong == "Wrong"
Hard == "Hard"
Easy == "Easy"
AnswerDifficulty == {Wrong, Hard, Easy}

VARIABLES
    buckets,      \* update: the Map passed to the last call (entries [key, ref])
    newBuckets,   \* update: the Map returned by the last call = the caller's store
    heap,         \* update: reference -> members of that Set object
    saved,        \* update: structural copy of `buckets` taken before the call
    card,         \* update: the card passed to the last call
    difficulty,   \* update: the difficulty passed to the last call
    startCards,   \* update: the cards held by the caller's first map
    sparse,       \* input map of toBucketSets / computeProgress (entries [key, cards])
    dense,        \* dense array: result of toBucketSets, input of the other two
    day,          \* practice: the day passed
    due,          \* practice: the set returned
    range,        \* getBucketRange: the value returned
    history,      \* computeProgress: the history passed
    report,       \* computeProgress: the value returned
    op            \* the operation applied last

vars == <<buckets, newBuckets, heap, saved, card, difficulty, startCards,
          sparse, dense, day, due, range, history, report, op>>

updVars == <<buckets, newBuckets, heap, saved, card, difficulty, startCards>>
schedVars == <<dense, day, due, range>>
progVars == <<history, report>>

\* ------------------------------------------------------------ Map helpers
\* Map.prototype.keys()
KeysOf(m) == {m[i].key : i \in 1..Len(m)}

\* Map.prototype.has(k)
Has(m, k) == k \in KeysOf(m)

\* position of key k in the insertion order of m
IndexOf(m, k) == CHOOSE i \in 1..Len(m) : m[i].key = k

\* Map.prototype.get(k) on a Map of references
Get(m, k) == m[IndexOf(m, k)].ref

\* Map.prototype.delete(k): the entry leaves, the others keep their order
Delete(m, k) == SelectSeq(m, LAMBDA e : e.key # k)

\* the members of each bucket of a Map of references: what deepStrictEqual compares
ContentsOf(m, h) == [k \in KeysOf(m) |-> h[Get(m, k)]]

\* the buckets of a structural copy that hold card c
BucketsHolding(content, c) == {k \in DOMAIN content : c \in content[k]}

\* all cards of a structural copy
CardsIn(content) == UNION {content[k] : k \in DOMAIN content}

\* new Set<Flashcard>(): a reference no live object has
FreshRef(h) == CHOOSE r \in 0..Cardinality(DOMAIN h) :
                  /\ r \notin DOMAIN h
                  /\ \A q \in 0..Cardinality(DOMAIN h) : q \notin DOMAIN h => r <= q

\* ---------------------------------------------------------------- update
\* the scan `for (const [bucketNum, cards] of newBuckets.entries())` with its break
RECURSIVE FindCurrentBucket(_, _, _, _)
FindCurrentBucket(m, h, c, i) ==
    IF i > Len(m) THEN Undefined
    ELSE IF c \in h[m[i].ref] THEN m[i].key
    ELSE FindCurrentBucket(m, h, c, i + 1)

\* mutant: Hard without the floor at 0
NewBucket_NoFloor(d, currentBucket) ==
    CASE d = Easy -> currentBucket + 1
      [] d = Hard -> currentBucket - 1
      [] d = Wrong -> 0
      [] OTHER -> currentBucket

\* the switch on difficulty
NewBucket(d, currentBucket) ==
    CASE d = Easy -> currentBucket + 1
      [] d = Hard -> IF currentBucket - 1 > 0 THEN currentBucket - 1 ELSE 0
      [] d = Wrong -> 0
      [] OTHER -> currentBucket

\* mutant: the card is not taken out of its bucket
RemoveFromCurrent_Kept(m, h, c, currentBucket) == h

\* currentCards.delete(card): the Set object itself changes
RemoveFromCurrent(m, h, c, currentBucket) ==
    [h EXCEPT ![Get(m, currentBucket)] = @ \ {c}]

\* mutant: an emptied bucket keeps its key
DropIfEmpty_KeyKept(m, h, currentBucket) == m

\* if (currentCards.size === 0) newBuckets.delete(currentBucket)
DropIfEmpty(m, h, currentBucket) ==
    IF h[Get(m, currentBucket)] = {} THEN Delete(m, currentBucket) ELSE m

\* newCards = newBuckets.get(newBucket) || new Set(); newCards.add(card);
\* newBuckets.set(newBucket, newCards)
AddToNew(m, h, c, nb) ==
    IF Has(m, nb)
    THEN [map |-> m, heap |-> [h EXCEPT ![Get(m, nb)] = @ \cup {c}]]
    ELSE LET r == FreshRef(h)
         IN [map |-> Append(m, [key |-> nb, ref |-> r]),
             heap |-> (r :> {c}) @@ h]

\* mutant: a card found in no bucket is filed as if it had been in bucket 0
update_UnknownFiled(m, h, c, d) ==
    LET currentBucket == FindCurrentBucket(m, h, c, 1)
    IN IF currentBucket = Undefined
       THEN AddToNew(m, h, c, NewBucket(d, 0))
       ELSE LET h1 == RemoveFromCurrent(m, h, c, currentBucket)
                m1 == DropIfEmpty(m, h1, currentBucket)
            IN AddToNew(m1, h1, c, NewBucket(d, currentBucket))

\* update(buckets, card, difficulty): the returned Map and the heap after the call.
\* new Map(buckets) copies the entries, not the Set objects they refer to.
update(m, h, c, d) ==
    LET copy == m
        currentBucket == FindCurrentBucket(copy, h, c, 1)
    IN IF currentBucket = Undefined
       THEN [map |-> copy, heap |-> h]
       ELSE LET h1 == RemoveFromCurrent(copy, h, c, currentBucket)
                m1 == DropIfEmpty(copy, h1, currentBucket)
            IN AddToNew(m1, h1, c, NewBucket(d, currentBucket))

\* ------------------------------------------------------- caller's inputs
Absent == Undefined
Assignments == [Cards -> (0..MaxBucket) \cup {Absent}]

\* the keys of S in ascending order
RECURSIVE Ascending(_)
Ascending(S) ==
    IF S = {} THEN <<>>
    ELSE LET lo == CHOOSE x \in S : \A y \in S : x <= y
         IN <<lo>> \o Ascending(S \ {lo})

UsedBuckets(a) == {a[c] : c \in Cards} \ {Absent}

\* a valid sparse map built by the caller: no empty bucket, a card in at most one
RefMapOf(a) ==
    LET ks == Ascending(UsedBuckets(a))
    IN [i \in 1..Len(ks) |-> [key |-> ks[i], ref |-> i - 1]]

HeapOf(a) ==
    LET ks == Ascending(UsedBuckets(a))
    IN [r \in 0..(Len(ks) - 1) |-> {c \in Cards : a[c] = ks[r + 1]}]

ValueMapOf(a) ==
    LET ks == Ascending(UsedBuckets(a))
    IN [i \in 1..Len(ks) |-> [key |-> ks[i], cards |-> {c \in Cards : a[c] = ks[i]}]]

\* --------------------------------------------------- specification: update
IdleSched == /\ dense = <<>> /\ day = 0 /\ due = {} /\ range = None
IdleProg == /\ history = <<>> /\ report = None
IdleUpd == /\ buckets = <<>> /\ newBuckets = <<>> /\ heap = <<>> /\ saved = <<>>
           /\ card = NoCard /\ difficulty = NoDifficulty /\ startCards = {}

Init ==
    /\ \E a \in Assignments :
          /\ newBuckets = RefMapOf(a)
          /\ heap = HeapOf(a)
          /\ startCards = {c \in Cards : a[c] # Absent}
    /\ buckets = newBuckets
    /\ saved = ContentsOf(newBuckets, heap)
    /\ card = NoCard
    /\ difficulty = NoDifficulty
    /\ sparse = <<>>
    /\ IdleSched
    /\ IdleProg
    /\ op = "init"

\* The caller passes the map the previous call returned (the first time, the
\* map it built) and no longer holds the map it passed before: the Set objects
\* of the passed map are the live ones.  A reference is only an identity, so
\* the live objects are named 0, 1, ... in the order of the map's entries.
\* Bucket numbers have no upper limit in the code; a call that would move a
\* card above MaxBucket is left out to keep the state space finite.
PassedMap(m) == [i \in 1..Len(m) |-> [key |-> m[i].key, ref |-> i - 1]]
PassedHeap(m, h) == [r \in 0..(Len(m) - 1) |-> h[m[r + 1].ref]]

Update(c, d) ==
    LET input == PassedMap(newBuckets)
        live == PassedHeap(newBuckets, heap)
        out == update(input, live, c, d)
    IN /\ ~(d = Easy /\ FindCurrentBucket(input, live, c, 1) >= MaxBucket)
       /\ buckets' = input
       /\ saved' = ContentsOf(input, live)
       /\ card' = c
       /\ difficulty' = d
       /\ newBuckets' = out.map
       /\ heap' = out.heap
       /\ op' = "update"
       /\ UNCHANGED <<startCards, sparse, schedVars, progVars>>

Next == \E c \in Cards, d \in AnswerDifficulty : Update(c, d)

Spec == Init /\ [][Next]_vars

\* ------------------------------------------------------------ toBucketSets
\* for (const number of buckets.keys()) if (number >= lastbucket) lastbucket = number
RECURSIVE LastBucket(_, _, _)
LastBucket(m, i, lastbucket) ==
    IF i > Len(m) THEN lastbucket
    ELSE LastBucket(m, i + 1,
                    IF m[i].key >= lastbucket THEN m[i].key ELSE lastbucket)

\* for (let i = 0; i <= lastbucket; i++) array[i] = new Set()
EmptySets(lastbucket) == [i \in 1..(lastbucket + 1) |-> {}]

\* for (const bucket of buckets) array[bucket[0]] = bucket[1]
RECURSIVE FillBuckets(_, _, _)
FillBuckets(array, m, i) ==
    IF i > Len(m) THEN array
    ELSE FillBuckets([array EXCEPT ![m[i].key + 1] = m[i].cards], m, i + 1)

\* toBucketSets(buckets); lastbucket starts at 0
toBucketSets(m) == FillBuckets(EmptySets(LastBucket(m, 1, 0)), m, 1)

\* ---------------------------------------------------------- getBucketRange
\* the loop over the indices: the pair <<minBucket, maxBucket>> after it
RECURSIVE RangeLoop(_, _, _, _)
RangeLoop(bs, i, minBucket, maxBucket) ==
    IF i >= Len(bs) THEN <<minBucket, maxBucket>>
    ELSE IF Cardinality(bs[i + 1]) > 0
         THEN RangeLoop(bs, i + 1,
                        IF minBucket = Undefined \/ i < minBucket THEN i ELSE minBucket,
                        IF maxBucket = Undefined \/ i > maxBucket THEN i ELSE maxBucket)
         ELSE RangeLoop(bs, i + 1, minBucket, maxBucket)

\* mutant: the final test is on truthiness (minBucket && maxBucket), so index 0 fails it
getBucketRange_Truthy(bs) ==
    LET r == RangeLoop(bs, 0, Undefined, Undefined)
    IN IF r[1] # Undefined /\ r[1] # 0 /\ r[2] # Undefined /\ r[2] # 0
       THEN Some([minBucket |-> r[1], maxBucket |-> r[2]])
       ELSE None

\* getBucketRange(buckets)
getBucketRange(bs) ==
    LET r == RangeLoop(bs, 0, Undefined, Undefined)
    IN IF r[1] # Undefined /\ r[2] # Undefined
       THEN Some([minBucket |-> r[1], maxBucket |-> r[2]])
       ELSE None

\* ---------------------------------------------------------------- practice
\* Math.pow(2, bucketIndex)
RECURSIVE Pow2(_)
Pow2(n) == IF n = 0 THEN 1 ELSE 2 * Pow2(n - 1)

\* const dayNumber = day + 1
DayNumber(d) == d + 1

\* mutant: bucket i is taken every i + 1 days instead of every 2^i days
IsDue_Linear(dayNumber, bucketIndex) == dayNumber % (bucketIndex + 1) = 0

\* dayNumber % Math.pow(2, bucketIndex) === 0 (buckets[bucketIndex] is a Set: truthy)
IsDue(dayNumber, bucketIndex) == dayNumber % Pow2(bucketIndex) = 0

\* the loop over the indices, adding each due bucket's cards to practiceCards
RECURSIVE PracticeLoop(_, _, _, _)
PracticeLoop(bs, dayNumber, bucketIndex, practiceCards) ==
    IF bucketIndex >= Len(bs) THEN practiceCards
    ELSE PracticeLoop(bs, dayNumber, bucketIndex + 1,
                      IF IsDue(dayNumber, bucketIndex)
                      THEN practiceCards \cup bs[bucketIndex + 1]
                      ELSE practiceCards)

\* practice(buckets, day)
practice(bs, d) == PracticeLoop(bs, DayNumber(d), 0, {})

\* ------------------------------------------- specification: the scheduler
\* the valid sparse maps given to toBucketSets
SparseMaps == {ValueMapOf(a) : a \in Assignments}

\* the valid dense arrays of length n: each card in at most one bucket
DenseOf(n, f) == [i \in 1..n |-> {c \in Cards : f[c] = i - 1}]
DenseArrays ==
    UNION {{DenseOf(n, f) : f \in [Cards -> (0..(n - 1)) \cup {Absent}]} : n \in 0..MaxLen}

InitSched ==
    /\ IdleUpd
    /\ sparse = <<>>
    /\ IdleSched
    /\ IdleProg
    /\ op = "init"

ToBucketSets(m) ==
    /\ op = "init"
    /\ sparse' = m
    /\ dense' = toBucketSets(m)
    /\ op' = "toBucketSets"
    /\ UNCHANGED <<updVars, day, due, range, progVars>>

GetBucketRange(bs) ==
    /\ op = "init"
    /\ dense' = bs
    /\ range' = getBucketRange(bs)
    /\ op' = "getBucketRange"
    /\ UNCHANGED <<updVars, sparse, day, due, progVars>>

Practice(bs, d) ==
    /\ op = "init"
    /\ dense' = bs
    /\ day' = d
    /\ due' = practice(bs, d)
    /\ op' = "practice"
    /\ UNCHANGED <<updVars, sparse, range, progVars>>

NextSched ==
    \/ \E m \in SparseMaps : ToBucketSets(m)
    \/ \E bs \in DenseArrays : GetBucketRange(bs)
    \/ \E bs \in DenseArrays, d \in 0..MaxDay : Practice(bs, d)

SpecSched == InitSched /\ [][NextSched]_vars

\* --------------------------------------------------------- computeProgress
\* for (const [bucket, cards] of buckets.entries()) totalCards += cards.size
RECURSIVE TotalCards(_, _)
TotalCards(m, i) ==
    IF i > Len(m) THEN 0 ELSE Cardinality(m[i].cards) + TotalCards(m, i + 1)

\* cardsByBucket.set(bucket, count), a Map in the order of the buckets' entries
CardsByBucket(m) == [i \in 1..Len(m) |-> [key |-> m[i].key, count |-> Cardinality(m[i].cards)]]

\* successCount: the entries judged Easy or Hard
RECURSIVE SuccessCount(_, _)
SuccessCount(h, i) ==
    IF i > Len(h) THEN 0
    ELSE (IF h[i].difficulty = Easy \/ h[i].difficulty = Hard THEN 1 ELSE 0)
         + SuccessCount(h, i + 1)

\* successRate as the fraction <<numerator, denominator>>; 0 is <<0, 1>>
SuccessRate(h) == IF Len(h) > 0 THEN <<SuccessCount(h, 1), Len(h)>> ELSE <<0, 1>>

\* wrongCounts.set(entry.card, (wrongCounts.get(entry.card) || 0) + 1): a new key
\* goes to the end of the Map, a known key keeps its place
Bump(wc, c) ==
    IF \E j \in 1..Len(wc) : wc[j].card = c
    THEN [j \in 1..Len(wc) |->
            IF wc[j].card = c THEN [card |-> c, count |-> wc[j].count + 1] ELSE wc[j]]
    ELSE Append(wc, [card |-> c, count |-> 1])

\* the loop over history filling wrongCounts
RECURSIVE WrongCounts(_, _, _)
WrongCounts(h, i, wc) ==
    IF i > Len(h) THEN wc
    ELSE WrongCounts(h, i + 1, IF h[i].difficulty = Wrong THEN Bump(wc, h[i].card) ELSE wc)

\* one element put in its place in a list sorted by (a, b) => b[1] - a[1]:
\* behind every element whose count is not smaller (the sort is stable)
RECURSIVE InsertDesc(_, _)
InsertDesc(sorted, e) ==
    IF sorted = <<>> THEN <<e>>
    ELSE IF Head(sorted).count >= e.count
         THEN <<Head(sorted)>> \o InsertDesc(Tail(sorted), e)
         ELSE <<e>> \o sorted

\* mutant: the entries are left in the order of the Map
SortDesc_Unsorted(entries, i, sorted) == entries

\* Array.from(wrongCounts.entries()).sort((a, b) => b[1] - a[1])
RECURSIVE SortDesc(_, _, _)
SortDesc(entries, i, sorted) ==
    IF i > Len(entries) THEN sorted
    ELSE SortDesc(entries, i + 1, InsertDesc(sorted, entries[i]))

\* .slice(0, 3)
Slice(s, n) == SubSeq(s, 1, IF Len(s) < n THEN Len(s) ELSE n)

\* .map(([card]) => card)
HardestCards(h) ==
    LET top == Slice(SortDesc(WrongCounts(h, 1, <<>>), 1, <<>>), TopN)
    IN [i \in 1..Len(top) |-> top[i].card]

\* computeProgress(buckets, history)
computeProgress(m, h) ==
    Some([totalCards |-> TotalCards(m, 1),
          cardsByBucket |-> CardsByBucket(m),
          successRate |-> SuccessRate(h),
          hardestCards |-> HardestCards(h)])

\* ----------------------------------- specification: the progress analyzer
\* the judgments of a history of length n, at most MaxRight of them not Wrong
Judgments(n) ==
    {j \in [1..n -> AnswerDifficulty] :
        Cardinality({i \in 1..n : j[i] # Wrong}) <= MaxRight}

HistoryOf(n, cs, js) == [i \in 1..n |-> [card |-> cs[i], difficulty |-> js[i]]]

\* the bucket maps given with the histories
ProgressMaps ==
    {<<>>,
     <<[key |-> 0, cards |-> {1}], [key |-> 1, cards |-> {2}]>>}

InitProgress ==
    /\ IdleUpd
    /\ IdleSched
    /\ sparse \in ProgressMaps
    /\ \E n \in 0..MaxHist :
          \E js \in Judgments(n) :
             \E cs \in [1..n -> HistCards] :
                history = HistoryOf(n, cs, js)
    /\ report = None
    /\ op = "init"

ComputeProgress ==
    /\ op = "init"
    /\ report' = computeProgress(sparse, history)
    /\ op' = "computeProgress"
    /\ UNCHANGED <<updVars, sparse, schedVars, history>>

NextProgress == ComputeProgress

SpecProgress == InitProgress /\ [][NextProgress]_vars

\* ------------------------------------------------------- claims on update
\* the returned map and the passed map as deepStrictEqual sees them after the call
Returned == ContentsOf(newBuckets, heap)
PassedNow == ContentsOf(buckets, heap)

\* C1: update does not mutate its input: after a call the map that was passed
\* has the same keys and the same members per key as the copy saved before it.
C1_InputNotMutated == op = "update" => PassedNow = saved

\* the bucket the claim's arithmetic sends a card of bucket k to
Destination(d, k) ==
    IF d = Easy THEN k + 1
    ELSE IF d = Hard THEN (IF k = 0 THEN 0 ELSE k - 1)
    ELSE 0

\* C2: a card that was in exactly one bucket k is, in the returned map, in
\* exactly bucket k+1 (Easy), max(0, k-1) (Hard) or 0 (Wrong), hence no longer
\* in k unless that is the destination.
C2_MovesToDestination ==
    (op = "update" /\ Cardinality(BucketsHolding(saved, card)) = 1) =>
        \A k \in BucketsHolding(saved, card) :
            BucketsHolding(Returned, card) = {Destination(difficulty, k)}

C2_Witness ==
    /\ op = "update"
    /\ difficulty = Hard
    /\ BucketsHolding(saved, card) = {2}
    /\ Cardinality(saved[2]) = 2
    /\ BucketsHolding(Returned, card) = {1}

\* C5: threading each returned map into the next call, from a map without
\* empty buckets, no key of the returned map maps to an empty set.
C5_NoEmptyBucket ==
    \A k \in KeysOf(newBuckets) : heap[Get(newBuckets, k)] # {}

C5_Witness ==
    /\ op = "update"
    /\ \E k \in DOMAIN saved :
          /\ saved[k] = {card}
          /\ k \notin KeysOf(newBuckets)
          /\ Cardinality(DOMAIN saved) >= 2

\* C6: threading each returned map into the next call, every card is in at
\* most one bucket, the cards held are those held at the start, and every
\* card other than the updated one is in the bucket it was in before the call.
C6_CardsKept ==
    /\ \A c \in Cards : Cardinality(BucketsHolding(Returned, c)) <= 1
    /\ CardsIn(Returned) = startCards
    /\ op = "update" =>
          \A c \in Cards \ {card} :
              BucketsHolding(Returned, c) = BucketsHolding(saved, c)

C6_Witness ==
    /\ op = "update"
    /\ Cardinality(startCards) = NumCards
    /\ BucketsHolding(saved, card) # BucketsHolding(Returned, card)
    /\ \E k \in DOMAIN saved : card \in saved[k] /\ Cardinality(saved[k]) >= 2

\* C7: a card in no bucket of the map: the returned map is structurally equal
\* to the input and the input is unchanged (the code has no throw to model).
C7_UnknownCardNoOp ==
    (op = "update" /\ BucketsHolding(saved, card) = {}) =>
        /\ Returned = saved
        /\ PassedNow = saved

C7_Witness ==
    /\ op = "update"
    /\ BucketsHolding(saved, card) = {}
    /\ Cardinality(DOMAIN saved) >= 2
    /\ Returned = saved

\* -------------------------------------------------- claims on the scheduler
\* dense index i (from 0) of the array
At(bs, i) == bs[i + 1]
Indices(bs) == 0..(Len(bs) - 1)
HighestKey(m) == CHOOSE k \in KeysOf(m) : \A j \in KeysOf(m) : j <= k

\* C3: the array returned by toBucketSets has length (maximum key) + 1, and
\* length 0 for the empty map.
C3_LengthIsMaxKeyPlusOne ==
    op = "toBucketSets" =>
        Len(dense) = (IF sparse = <<>> THEN 0 ELSE HighestKey(sparse) + 1)

\* C4: practice returns exactly the union of the sets at the indices i with
\* (d+1) mod 2^i = 0; bucket 0 is returned every day; on day 0 no card of a
\* bucket i >= 1 is returned.
C4_DueBuckets ==
    op = "practice" =>
        /\ due = UNION {At(dense, i) : i \in {j \in Indices(dense) : (day + 1) % (2 ^ j) = 0}}
        /\ Len(dense) > 0 => At(dense, 0) \subseteq due
        /\ day = 0 => \A i \in Indices(dense) : i >= 1 => At(dense, i) \cap due = {}

C4_Witness ==
    /\ op = "practice"
    /\ day = 5
    /\ Len(dense) >= 3
    /\ \A i \in 0..2 : At(dense, i) # {}
    /\ due = At(dense, 0) \cup At(dense, 1)

\* the case of C9: day 1, buckets 0, 1 and 2 all non-empty
Day1ThreeBuckets ==
    /\ op = "practice"
    /\ day = 1
    /\ Len(dense) >= 3
    /\ \A i \in 0..2 : At(dense, i) # {}

\* C9: on day 1 the set returned is exactly bucket 1's cards and holds no
\* card of bucket 0 or bucket 2 (the repository's test "day 1 selects bucket
\* 1 only").  practice computes dayNumber = 2, which 2^0 divides as well.
C9_Day1OnlyBucket1 ==
    Day1ThreeBuckets =>
        /\ due = At(dense, 1)
        /\ due \cap At(dense, 0) = {}
        /\ due \cap At(dense, 2) = {}

\* C8: getBucketRange returns none iff the array is empty or every set in it
\* is empty; otherwise minBucket / maxBucket are the lowest / highest index
\* holding a non-empty set, minBucket <= maxBucket, no non-empty set outside.
C8_TrueRange ==
    op = "getBucketRange" =>
        /\ range = None <=> \A i \in Indices(dense) : At(dense, i) = {}
        /\ \A r \in range :
              /\ r.minBucket \in Indices(dense) /\ At(dense, r.minBucket) # {}
              /\ r.maxBucket \in Indices(dense) /\ At(dense, r.maxBucket) # {}
              /\ r.minBucket <= r.maxBucket
              /\ \A i \in Indices(dense) :
                    At(dense, i) # {} => (r.minBucket <= i /\ i <= r.maxBucket)

C8_Witness ==
    /\ op = "getBucketRange"
    /\ Len(dense) = 4
    /\ At(dense, 0) # {} /\ At(dense, 1) = {} /\ At(dense, 2) # {} /\ At(dense, 3) = {}
    /\ range = Some([minBucket |-> 0, maxBucket |-> 2])

\* ---------------------------------------- claims on the progress analyzer
\* how often card c is judged Wrong in history h, and where first
WrongTimes(h, c) == Cardinality({i \in 1..Len(h) : h[i].card = c /\ h[i].difficulty = Wrong})
FirstWrong(h, c) ==
    CHOOSE i \in 1..Len(h) :
        /\ h[i].card = c /\ h[i].difficulty = Wrong
        /\ \A j \in 1..(i - 1) : ~(h[j].card = c /\ h[j].difficulty = Wrong)

\* C10: hardestCards holds only cards with a Wrong entry, each at most once,
\* at most 3 of them, by descending count of Wrong entries, equal counts by
\* the position of the first Wrong entry; no card left out has a higher Wrong
\* count than a card listed.
C10_HardestCards ==
    op = "computeProgress" =>
        \A r \in report :
            LET hc == r.hardestCards
                listed == {hc[i] : i \in 1..Len(hc)}
            IN /\ \A c \in listed : WrongTimes(history, c) >= 1
               /\ \A i, j \in 1..Len(hc) : i # j => hc[i] # hc[j]
               /\ Len(hc) <= 3
               /\ \A i, j \in 1..Len(hc) :
                     i < j =>
                        \/ WrongTimes(history, hc[i]) > WrongTimes(history, hc[j])
                        \/ /\ WrongTimes(history, hc[i]) = WrongTimes(history, hc[j])
                           /\ FirstWrong(history, hc[i]) < FirstWrong(history, hc[j])
               /\ \A c \in HistCards \ listed :
                     \A x \in listed : WrongTimes(history, c) <= WrongTimes(history, x)

\* four cards judged Wrong, the one judged Wrong twice came last in the history
C10_Witness ==
    /\ op = "computeProgress"
    /\ Len(history) = 5
    /\ \A c \in 1..4 : WrongTimes(history, c) >= 1
    /\ FirstWrong(history, 4) = 4
    /\ WrongTimes(history, 4) = 2
    /\ \A r \in report : r.hardestCards = <<4, 1, 2>>
    /\ report # None

====
